---- MODULE Spec2Model ----
(***************************************************************************)
(* Model of sql2csv.py: download map.sql, extract the x_world INSERT       *)
(* records with a regular expression, parse each record with the csv       *)
(* module and write map.csv.                                               *)
(*                                                                         *)
(* Text is modelled as a sequence of characters; a character is a string   *)
(* of length one.  Two characters that cannot be written inside a TLA+     *)
(* string are named: BQ is the backtick and CR the carriage return.        *)
(***************************************************************************)
EXTENDS Integers, Sequences, FiniteSets, TLC

BQ == "BQ"
CR == "CR"
LF == "\n"
SQ == "'"
DQ == "\""
BS == "\\"
COMMA == ","

(***************************************************************************)
(* Bounds of the model.                                                    *)
(***************************************************************************)
MaxStmts == 2
MaxRecLen == 4
MaxExtra == 16
MaxVals == 2
MaxRows == 1

(***************************************************************************)
(* Generic helpers on sequences.                                           *)
(***************************************************************************)
RECURSIVE Flatten(_)
Flatten(ss) == IF ss = <<>> THEN <<>> ELSE Head(ss) \o Flatten(Tail(ss))

RECURSIVE Repeat(_, _)
Repeat(s, n) == IF n = 0 THEN <<>> ELSE s \o Repeat(s, n - 1)

SeqsUpTo(S, n) == UNION {[1..k -> S] : k \in 0..n}

Contains(s, c) == \E i \in 1..Len(s) : s[i] = c

IsPrefix(s, t) == Len(s) <= Len(t) /\ SubSeq(t, 1, Len(s)) = s

(***************************************************************************)
(* HEADERS, sql2csv.py lines 17-21.                                        *)
(***************************************************************************)
HEADERS ==
  << <<"F","i","e","l","d"," ","I","D">>,
     <<"X">>,
     <<"Y">>,
     <<"T","r","i","b","e">>,
     <<"V","i","l","l","a","g","e"," ","I","D">>,
     <<"V","i","l","l","a","g","e"," ","n","a","m","e">>,
     <<"P","l","a","y","e","r"," ","I","D">>,
     <<"P","l","a","y","e","r"," ","n","a","m","e">>,
     <<"A","l","l","i","a","n","c","e"," ","I","D">>,
     <<"A","l","l","i","a","n","c","e"," ","T","a","g">>,
     <<"P","o","p","u","l","a","t","i","o","n">>,
     <<"R","e","g","i","o","n">>,
     <<"C","a","p","i","t","a","l">>,
     <<"C","i","t","y">>,
     <<"H","a","r","b","o","r">>,
     <<"V","i","c","t","o","r","y"," ","p","o","i","n","t","s">> >>

(***************************************************************************)
(* INSERT_PATTERN, line 23:                                                *)
(*   INSERT INTO `x_world` VALUES\s*\((.*?)\);   with re.IGNORECASE        *)
(***************************************************************************)
PatternLiteral ==
  <<"I","N","S","E","R","T"," ","I","N","T","O"," ",BQ,"x","_","w","o","r","l","d",BQ,
    " ","V","A","L","U","E","S">>

LowerOf ==
  [c \in {"A","D","E","I","L","N","O","R","S","T","U","V","W","X"} |->
     CASE c = "A" -> "a" [] c = "D" -> "d" [] c = "E" -> "e" [] c = "I" -> "i"
       [] c = "L" -> "l" [] c = "N" -> "n" [] c = "O" -> "o" [] c = "R" -> "r"
       [] c = "S" -> "s" [] c = "T" -> "t" [] c = "U" -> "u" [] c = "V" -> "v"
       [] c = "W" -> "w" [] c = "X" -> "x"]

NoFold(c) == c

\* re.IGNORECASE compares characters after case folding.
Fold(c) == IF c \in DOMAIN LowerOf THEN LowerOf[c] ELSE c

\* The characters \s matches.
Whitespace == {" ", "\t", LF, CR, "\f"}

\* The pattern without its table name.
AnyTableAt(text, pos) ==
  /\ pos + Len(PatternLiteral) - 1 <= Len(text)
  /\ \A k \in (1..12) \cup (22..28) : Fold(text[pos + k - 1]) = Fold(PatternLiteral[k])

\* The literal part of the pattern matches text at position pos.
LiteralAt(text, pos) ==
  /\ pos + Len(PatternLiteral) - 1 <= Len(text)
  /\ \A k \in 1..Len(PatternLiteral) : Fold(text[pos + k - 1]) = Fold(PatternLiteral[k])

\* \s* : the first position at or after p that holds no whitespace.
RECURSIVE SkipSpace(_, _)
SkipSpace(text, p) ==
  IF p <= Len(text) /\ text[p] \in Whitespace THEN SkipSpace(text, p + 1) ELSE p

\* The positions e >= p that hold ");" with no line feed in p..e-1: where
\* .* may stop.
Closers(text, p) ==
  { e \in p..(Len(text) - 1) :
      /\ text[e] = ")"
      /\ text[e + 1] = ";"
      /\ \A k \in p..(e - 1) : text[k] # LF }

Least(S) == CHOOSE e \in S : \A d \in S : e <= d

Greatest(S) == CHOOSE e \in S : \A d \in S : e >= d

GreedyClose(text, p) == IF Closers(text, p) = {} THEN 0 ELSE Greatest(Closers(text, p))

\* (.*?)\); : the lazy quantifier stops at the first closer; 0 if there is none.
LazyClose(text, p) == IF Closers(text, p) = {} THEN 0 ELSE Least(Closers(text, p))

\* One match attempt anchored at pos: [ok, group, next].
NoMatch(pos) == [ok |-> FALSE, group |-> <<>>, next |-> pos + 1]

MatchAt(text, pos) ==
  IF ~LiteralAt(text, pos) THEN NoMatch(pos)
  ELSE CHOOSE m \in
         { IF p > Len(text) \/ text[p] # "(" THEN NoMatch(pos)
           ELSE IF LazyClose(text, p + 1) = 0 THEN NoMatch(pos)
           ELSE [ok |-> TRUE,
                 group |-> SubSeq(text, p + 1, LazyClose(text, p + 1) - 1),
                 next |-> LazyClose(text, p + 1) + 2] :
           p \in {SkipSpace(text, pos + Len(PatternLiteral))} } : TRUE

\* INSERT_PATTERN.findall: the scan takes the leftmost position at or after
\* pos where the pattern matches and resumes after that match.
RECURSIVE FindAllFrom(_, _)
FindAllFrom(text, pos) ==
  IF \A p \in pos..Len(text) : ~MatchAt(text, p).ok THEN <<>>
  ELSE CHOOSE found \in
         { <<m.group>> \o FindAllFrom(text, m.next) :
           m \in {MatchAt(text, p) : p \in {Least({p \in pos..Len(text) : MatchAt(text, p).ok})}} } : TRUE

\* extract_value_strings, lines 33-38.
extract_value_strings(sql_text) == FindAllFrom(sql_text, 1)

(***************************************************************************)
(* csv.reader with delimiter "," and quotechar q, the other dialect        *)
(* parameters at their defaults (doublequote, no escapechar, not strict,   *)
(* QUOTE_MINIMAL): the character automaton of the csv module, used by      *)
(* parse_record at lines 48-49.  EOL is the end-of-line mark the reader    *)
(* feeds after the last character of a line.                               *)
(***************************************************************************)
EOL == "EOL"

SaveField(s, st) == [st |-> st, fields |-> Append(s.fields, s.cur), cur |-> <<>>]

AddChar(s, c, st) == [st |-> st, fields |-> s.fields, cur |-> Append(s.cur, c)]

Goto(s, st) == [s EXCEPT !.st = st]

AfterLine(c) == IF c = EOL THEN "START_RECORD" ELSE "EAT_CRNL"

StartField(s, c, q) ==
  IF c \in {LF, CR, EOL} THEN SaveField(s, AfterLine(c))
  ELSE IF c = q THEN Goto(s, "IN_QUOTED_FIELD")
  ELSE IF c = COMMA THEN SaveField(s, "START_FIELD")
  ELSE AddChar(s, c, "IN_FIELD")

ProcessChar(s, c, q) ==
  CASE s.st = "START_RECORD" ->
         IF c = EOL THEN s
         ELSE IF c \in {LF, CR} THEN Goto(s, "EAT_CRNL")
         ELSE StartField(s, c, q)
    [] s.st = "START_FIELD" -> StartField(s, c, q)
    [] s.st = "IN_FIELD" ->
         IF c \in {LF, CR, EOL} THEN SaveField(s, AfterLine(c))
         ELSE IF c = COMMA THEN SaveField(s, "START_FIELD")
         ELSE AddChar(s, c, "IN_FIELD")
    [] s.st = "IN_QUOTED_FIELD" ->
         IF c = EOL THEN s
         ELSE IF c = q THEN Goto(s, "QUOTE_IN_QUOTED_FIELD")
         ELSE AddChar(s, c, "IN_QUOTED_FIELD")
    [] s.st = "QUOTE_IN_QUOTED_FIELD" ->
         IF c = q THEN AddChar(s, c, "IN_QUOTED_FIELD")
         ELSE IF c = COMMA THEN SaveField(s, "START_FIELD")
         ELSE IF c \in {LF, CR, EOL} THEN SaveField(s, AfterLine(c))
         ELSE AddChar(s, c, "IN_FIELD")
    [] s.st = "EAT_CRNL" ->
         IF c \in {LF, CR} THEN s
         ELSE IF c = EOL THEN Goto(s, "START_RECORD")
         ELSE Goto(s, "ERROR")
    [] s.st = "ERROR" -> s

\* The reader feeds the characters of the line in order, then EOL.  (The
\* state after a character is bound to t so that it is computed once.)
RECURSIVE ReadChars(_, _, _, _)
ReadChars(line, i, s, q) ==
  IF i > Len(line) THEN ProcessChar(s, EOL, q)
  ELSE CHOOSE r \in {ReadChars(line, i + 1, t, q) : t \in {ProcessChar(s, line[i], q)}} : TRUE

\* next(csv.reader([line], delimiter=",", quotechar=q)): the one row of a
\* one-line input, or csv.Error.  A line that ends inside a quoted field
\* finds the input exhausted and the open field is saved.
EndOfInput(s) ==
  IF s.st = "ERROR" THEN [err |-> TRUE, fields |-> <<>>]
  ELSE IF s.st = "IN_QUOTED_FIELD" THEN [err |-> FALSE, fields |-> Append(s.fields, s.cur)]
  ELSE [err |-> FALSE, fields |-> s.fields]

ReadRow(line, q) ==
  CHOOSE r \in { EndOfInput(s) :
                 s \in {ReadChars(line, 1, [st |-> "START_RECORD", fields |-> <<>>, cur |-> <<>>], q)} } : TRUE

\* fields = next(reader), lines 48-49.
SplitRecord(record_str) == ReadRow(record_str, SQ)

PadOnly(fields, expected_cols) ==
  IF Len(fields) < expected_cols
  THEN fields \o [i \in 1..(expected_cols - Len(fields)) |-> <<>>]
  ELSE fields

\* Lines 51-55: truncate or pad to expected_cols.
Normalise(fields, expected_cols) ==
  IF Len(fields) > expected_cols THEN SubSeq(fields, 1, expected_cols)
  ELSE IF Len(fields) < expected_cols
       THEN fields \o [i \in 1..(expected_cols - Len(fields)) |-> <<>>]
  ELSE fields

\* parse_record, lines 41-55: [err, fields]; err is csv.Error raised by next(reader).
parse_record(record_str, expected_cols) ==
  CHOOSE ret \in { IF r.err THEN r ELSE [err |-> FALSE, fields |-> Normalise(r.fields, expected_cols)] :
                   r \in {SplitRecord(record_str)} } : TRUE

(***************************************************************************)
(* csv.writer with the default (excel) dialect: a field is quoted when it  *)
(* holds the delimiter, the quote character or a line-terminator           *)
(* character, with embedded quotes doubled; a row of one empty field is    *)
(* written as a pair of quotes.  A written row is kept without its \r\n.   *)
(***************************************************************************)
NeedsQuote(f) == \E i \in 1..Len(f) : f[i] \in {COMMA, DQ, CR, LF}

RECURSIVE DoubleQuotes(_)
DoubleQuotes(f) ==
  IF f = <<>> THEN <<>>
  ELSE (IF Head(f) = DQ THEN <<DQ, DQ>> ELSE <<Head(f)>>) \o DoubleQuotes(Tail(f))

FormatField(f) == IF NeedsQuote(f) THEN <<DQ>> \o DoubleQuotes(f) \o <<DQ>> ELSE f

RECURSIVE JoinFields(_)
JoinFields(row) ==
  IF row = <<>> THEN <<>>
  ELSE IF Len(row) = 1 THEN FormatField(row[1])
  ELSE FormatField(row[1]) \o <<COMMA>> \o JoinFields(Tail(row))

\* writer.writerow(row)
writerow(row) == IF row = << <<>> >> THEN <<DQ, DQ>> ELSE JoinFields(row)

HeaderUnlessEmpty(records, headers) ==
  IF records = <<>> THEN <<>>
  ELSE <<writerow(headers)>> \o [i \in 1..Len(records) |-> writerow(records[i])]

\* write_csv, lines 58-63: the content of the file after a complete write.
write_csv(records, headers) ==
  <<writerow(headers)>> \o [i \in 1..Len(records) |-> writerow(records[i])]


(***************************************************************************)
(* Inputs.  The server's dump is a sequence of INSERT statements; the      *)
(* text it serves is their rendering.  Each statement names its table and  *)
(* carries one or more value tuples, written as in SQL.                    *)
(***************************************************************************)
OtherLiteral ==
  <<"I","N","S","E","R","T"," ","I","N","T","O"," ",BQ,"x","_","u","s","e","r","s",BQ,
    " ","V","A","L","U","E","S">>

MixedLiteral ==
  <<"i","n","s","e","r","t"," ","i","n","t","o"," ",BQ,"X","_","W","o","r","l","d",BQ,
    " ","v","a","l","u","e","s">>

Heads ==
  { [table |-> "x_world", text |-> PatternLiteral \o <<" ">>],
    [table |-> "x_world", text |-> MixedLiteral],
    [table |-> "x_world", text |-> PatternLiteral \o <<LF>>],
    [table |-> "x_users", text |-> OtherLiteral \o <<" ">>] }

TupleLists ==
  { << <<"1", COMMA, SQ, "a", COMMA, "b", SQ>> >>,
    << <<"7">>, <<"8">> >>,
    << <<"2", COMMA, LF, "3">> >>,
    << <<SQ, "x", ")", ";", SQ>> >>,
    << <<"5", COMMA, CR, "6">> >> }

Statements == [head : Heads, tuples : TupleLists]

Dumps == SeqsUpTo(Statements, MaxStmts)

RECURSIVE JoinTuples(_)
JoinTuples(tuples) ==
  IF Len(tuples) = 1 THEN tuples[1]
  ELSE tuples[1] \o <<")", COMMA, "(">> \o JoinTuples(Tail(tuples))

RenderStmt(st) == st.head.text \o <<"(">> \o JoinTuples(st.tuples) \o <<")", ";", LF>>

Render(dump) == Flatten([i \in 1..Len(dump) |-> RenderStmt(dump[i])])

\* What requests.get can do: fail in transport, or return a response.  A 304
\* carries no body.
Responses ==
  [kind : {"transport"}, exc : {"ConnectionError", "Timeout"}, status : {0}, dump : {<<>>}]
    \cup [kind : {"http"}, exc : {"none"}, status : {200}, dump : Dumps]
    \cup [kind : {"http"}, exc : {"none"}, status : {304, 404, 500}, dump : {<<>>}]

(***************************************************************************)
(* Exceptions: the classes main can see raised and the handlers of lines   *)
(* 100-105.                                                                *)
(***************************************************************************)
BaseOf ==
  [c \in {"SystemExit", "Exception", "OSError", "csv.Error", "RequestException",
          "HTTPError", "ConnectionError", "Timeout"} |->
     CASE c \in {"SystemExit", "Exception"} -> "BaseException"
       [] c \in {"OSError", "csv.Error"} -> "Exception"
       [] c = "RequestException" -> "OSError"
       [] c \in {"HTTPError", "ConnectionError", "Timeout"} -> "RequestException"]

RECURSIVE IsInstance(_, _)
IsInstance(cls, of) ==
  \/ cls = of
  \/ cls \in DOMAIN BaseOf /\ IsInstance(BaseOf[cls], of)

\* except requests.RequestException, line 100.
CaughtAsRequest(cls) == IsInstance(cls, "RequestException")

CatchesAll(cls) == ~CaughtAsRequest(cls)

\* except Exception, line 103 (reached when line 100 did not match).
CaughtAsException(cls) == ~CaughtAsRequest(cls) /\ IsInstance(cls, "Exception")

ServerErrorOnly(status) == 500 <= status /\ status < 600

\* resp.raise_for_status(), line 29: HTTPError for 4xx and 5xx.
RaisesForStatus(status) == 400 <= status /\ status < 600

(***************************************************************************)
(* State.                                                                  *)
(***************************************************************************)
VARIABLES
  pc,           \* position of main
  resp,         \* what requests.get did in this run
  sql_text,     \* main's sql_text
  raw_records,  \* main's raw_records
  parsed,       \* main's parsed
  map_sql,      \* the file map.sql
  map_csv,      \* the file map.csv
  fs0,          \* the two files as the run found them
  stderr,       \* the diagnostics printed so far
  exc,          \* the exception in flight
  exit_status,  \* <<>> while running, <<code>> once the process has exited
  u_pc, u_in, u_ret, u_file    \* a direct call of parse_record and write_csv

vars == <<pc, resp, sql_text, raw_records, parsed, map_sql, map_csv, fs0, stderr, exc,
          exit_status, u_pc, u_in, u_ret, u_file>>

mainVars == <<pc, resp, sql_text, raw_records, parsed, map_sql, map_csv, fs0, stderr, exc,
              exit_status>>

unitVars == <<u_pc, u_in, u_ret, u_file>>

NoFile == [exists |-> FALSE, data |-> <<>>]
File(data) == [exists |-> TRUE, data |-> data]

NoResp == [kind |-> "none", exc |-> "none", status |-> 0, dump |-> <<>>]
NoExc == [cls |-> "none", code |-> 0]
NoRet == [err |-> FALSE, fields |-> <<>>]

\* Files a previous run may have left.
OldFiles ==
  { [sql |-> NoFile, csv |-> NoFile],
    [sql |-> File(<<"o", "l", "d">>), csv |-> File(<< <<"o", "l", "d">> >>)] }

NoInput == [structured |-> FALSE, vals |-> <<>>, rec |-> <<>>]

UnitIdle == u_pc = "idle" /\ u_in = NoInput /\ u_ret = NoRet /\ u_file = NoFile

Init ==
  /\ pc = "start"
  /\ resp = NoResp
  /\ sql_text = <<>>
  /\ raw_records = <<>>
  /\ parsed = <<>>
  /\ fs0 \in OldFiles
  /\ map_sql = fs0.sql
  /\ map_csv = fs0.csv
  /\ stderr = <<>>
  /\ exc = NoExc
  /\ exit_status = <<>>
  /\ UnitIdle

Raise(cls, code) == pc' = "raised" /\ exc' = [cls |-> cls, code |-> code]

\* fetch_sql, lines 26-30, called at lines 77-78.
Fetch ==
  /\ pc = "start"
  /\ \E r \in Responses :
       /\ resp' = r
       /\ stderr' = Append(stderr, "Fetching SQL")
       /\ IF r.kind = "transport" THEN Raise(r.exc, 0) /\ UNCHANGED sql_text
          ELSE IF RaisesForStatus(r.status) THEN Raise("HTTPError", 0) /\ UNCHANGED sql_text
          ELSE pc' = "fetched" /\ sql_text' = Render(r.dump) /\ UNCHANGED exc
  /\ UNCHANGED <<raw_records, parsed, map_sql, map_csv, fs0, exit_status>>
  /\ UNCHANGED unitVars

\* Lines 79-81: open map.sql for writing and write the text.  open may fail
\* (file untouched) and write may fail after open has truncated the file.
SaveCache ==
  /\ pc = "fetched"
  /\ stderr' = Append(stderr, "Saving fetched SQL")
  /\ \/ /\ map_sql' = File(sql_text)
        /\ pc' = "cached"
        /\ UNCHANGED exc
     \/ /\ map_sql' \in {map_sql, File(<<>>)}
        /\ Raise("OSError", 0)
  /\ UNCHANGED <<resp, sql_text, raw_records, parsed, map_csv, fs0, exit_status>>
  /\ UNCHANGED unitVars

\* Lines 83-87 as a step taken at position at: extract, and sys.exit(code)
\* when nothing was found.
ExtractFrom(at, code) ==
  /\ pc = at
  /\ raw_records' = extract_value_strings(sql_text)
  /\ IF raw_records' = <<>>
     THEN /\ stderr' = stderr \o <<"Extracting INSERT records", "No x_world INSERTs found">>
          /\ Raise("SystemExit", code)
     ELSE /\ stderr' = Append(stderr, "Extracting INSERT records")
          /\ pc' = "extracted"
          /\ UNCHANGED exc
  /\ UNCHANGED <<resp, sql_text, parsed, map_sql, map_csv, fs0, exit_status>>
  /\ UNCHANGED unitVars

ExtractExitZero == ExtractFrom("cached", 0)

ExtractBeforeSave == ExtractFrom("fetched", 1)

\* Lines 83-87: after the cache file is written; sys.exit(1).
Extract == ExtractFrom("cached", 1)

\* Lines 89-93: parse every record; the first csv.Error ends the comprehension.
Parse ==
  /\ pc = "extracted"
  /\ stderr' = Append(stderr, "Parsing records")
  /\ \E rows \in {[i \in 1..Len(raw_records) |-> parse_record(raw_records[i], Len(HEADERS))]} :
       IF \E i \in 1..Len(rows) : rows[i].err
       THEN Raise("csv.Error", 0) /\ UNCHANGED parsed
       ELSE /\ parsed' = [i \in 1..Len(rows) |-> rows[i].fields]
            /\ pc' = "parsed"
            /\ UNCHANGED exc
  /\ UNCHANGED <<resp, sql_text, raw_records, map_sql, map_csv, fs0, exit_status>>
  /\ UNCHANGED unitVars

\* Lines 95-96: write_csv; open or a write may fail as for map.sql.
WriteCsv ==
  /\ pc = "parsed"
  /\ stderr' = Append(stderr, "Writing CSV")
  /\ \/ /\ map_csv' = File(write_csv(parsed, HEADERS))
        /\ pc' = "written"
        /\ UNCHANGED exc
     \/ /\ map_csv' \in {map_csv, File(<<>>)}
        /\ Raise("OSError", 0)
  /\ UNCHANGED <<resp, sql_text, raw_records, parsed, map_sql, fs0, exit_status>>
  /\ UNCHANGED unitVars

\* Line 98, then main returns and the interpreter exits with status 0.
Done ==
  /\ pc = "written"
  /\ stderr' = Append(stderr, "Done")
  /\ pc' = "exited"
  /\ exit_status' = <<0>>
  /\ UNCHANGED <<resp, sql_text, raw_records, parsed, map_sql, map_csv, fs0, exc>>
  /\ UNCHANGED unitVars

\* Lines 100-102.
HandleRequestException ==
  /\ pc = "raised"
  /\ CaughtAsRequest(exc.cls)
  /\ stderr' = Append(stderr, "Error fetching SQL")
  /\ pc' = "exited"
  /\ exit_status' = <<1>>
  /\ UNCHANGED <<resp, sql_text, raw_records, parsed, map_sql, map_csv, fs0, exc>>
  /\ UNCHANGED unitVars

\* Lines 103-105.
HandleException ==
  /\ pc = "raised"
  /\ CaughtAsException(exc.cls)
  /\ stderr' = Append(stderr, "Unexpected error")
  /\ pc' = "exited"
  /\ exit_status' = <<1>>
  /\ UNCHANGED <<resp, sql_text, raw_records, parsed, map_sql, map_csv, fs0, exc>>
  /\ UNCHANGED unitVars

\* No handler matches: the SystemExit of line 87 leaves main and ends the process.
Propagate ==
  /\ pc = "raised"
  /\ ~CaughtAsRequest(exc.cls)
  /\ ~CaughtAsException(exc.cls)
  /\ pc' = "exited"
  /\ exit_status' = <<exc.code>>
  /\ UNCHANGED <<resp, sql_text, raw_records, parsed, map_sql, map_csv, fs0, stderr, exc>>
  /\ UNCHANGED unitVars

Next ==
  \/ Fetch
  \/ SaveCache
  \/ Extract
  \/ Parse
  \/ WriteCsv
  \/ Done
  \/ HandleRequestException
  \/ HandleException
  \/ Propagate

Spec == Init /\ [][Next]_vars

\* main is one sequential process: a step that is enabled is taken.
FairSpec == Spec /\ WF_vars(Next)

(***************************************************************************)
(* parse_record and write_csv called directly.  A record is either any     *)
(* short string over RecAlphabet followed by n further ",1" fields, or the *)
(* rendering of a list of SQL values.                                      *)
(***************************************************************************)
RecAlphabet == {"a", COMMA, SQ, BS, CR}

FreeRecords ==
  { h \o Repeat(<<COMMA, "1">>, n) : h \in SeqsUpTo(RecAlphabet, MaxRecLen), n \in 0..MaxExtra }

\* An SQL value: a bare number, or a string literal between single quotes in
\* which a quote is written doubled or, as MySQL dumps do, after a backslash.
Values ==
  { [quoted |-> FALSE, content |-> <<"1">>, esc |-> "doubled"],
    [quoted |-> TRUE, content |-> <<>>, esc |-> "doubled"],
    [quoted |-> TRUE, content |-> <<"a", COMMA, "b">>, esc |-> "doubled"],
    [quoted |-> TRUE, content |-> <<COMMA, COMMA>>, esc |-> "doubled"],
    [quoted |-> TRUE, content |-> <<"a", SQ, COMMA, "b">>, esc |-> "doubled"],
    [quoted |-> TRUE, content |-> <<"a", SQ, COMMA, "b">>, esc |-> "backslash"] }

RECURSIVE EscapeQuotes(_, _)
EscapeQuotes(content, esc) ==
  IF content = <<>> THEN <<>>
  ELSE (IF Head(content) = SQ
        THEN (IF esc = "doubled" THEN <<SQ, SQ>> ELSE <<BS, SQ>>)
        ELSE <<Head(content)>>) \o EscapeQuotes(Tail(content), esc)

RenderValue(v) ==
  IF v.quoted THEN <<SQ>> \o EscapeQuotes(v.content, v.esc) \o <<SQ>> ELSE v.content

RECURSIVE RenderValues(_)
RenderValues(vals) ==
  IF vals = <<>> THEN <<>>
  ELSE IF Len(vals) = 1 THEN RenderValue(vals[1])
  ELSE RenderValue(vals[1]) \o <<COMMA>> \o RenderValues(Tail(vals))

ValueLists == SeqsUpTo(Values, MaxVals) \ {<<>>}

UnitInputs ==
  { [structured |-> FALSE, vals |-> <<>>, rec |-> r] : r \in FreeRecords }
    \cup { [structured |-> TRUE, vals |-> vs, rec |-> RenderValues(vs)] : vs \in ValueLists }

UnitInit ==
  /\ pc = "idle"
  /\ resp = NoResp
  /\ sql_text = <<>>
  /\ raw_records = <<>>
  /\ parsed = <<>>
  /\ fs0 = [sql |-> NoFile, csv |-> NoFile]
  /\ map_sql = NoFile
  /\ map_csv = NoFile
  /\ stderr = <<>>
  /\ exc = NoExc
  /\ exit_status = <<>>
  /\ u_pc = "call"
  /\ u_in \in UnitInputs
  /\ u_ret = NoRet
  /\ u_file = NoFile

\* parse_record(record_str, expected_cols=len(HEADERS)), as at line 91.
CallParse ==
  /\ u_pc = "call"
  /\ u_ret' = parse_record(u_in.rec, Len(HEADERS))
  /\ u_pc' = "parsed"
  /\ UNCHANGED <<u_in, u_file>>
  /\ UNCHANGED mainVars

\* write_csv(records, HEADERS, path) on n copies of the parsed record.
CallWrite ==
  /\ u_pc = "parsed"
  /\ ~u_ret.err
  /\ \E n \in 0..MaxRows :
       u_file' = File(write_csv([i \in 1..n |-> u_ret.fields], HEADERS))
  /\ u_pc' = "written"
  /\ UNCHANGED <<u_in, u_ret>>
  /\ UNCHANGED mainVars

UnitNext ==
  \/ CallParse
  \/ CallWrite

UnitSpec == UnitInit /\ [][UnitNext]_vars

\* Both kinds of run: main, and the direct calls.
AllInit == Init \/ UnitInit

AllNext ==
  \/ Next
  \/ UnitNext

AllSpec == AllInit /\ [][AllNext]_vars

(***************************************************************************)
(* Properties.                                                             *)
(***************************************************************************)
Printed(tag) == Contains(stderr, tag)

Exited == pc = "exited"

HasPair(s, a, b) == \E i \in 1..(Len(s) - 1) : s[i] = a /\ s[i + 1] = b

\* The header row as text.
HeaderLine ==
  <<
    "F","i","e","l","d"," ","I","D",COMMA,"X",COMMA,"Y",COMMA,"T","r","i",
    "b","e",COMMA,"V","i","l","l","a","g","e"," ","I","D",COMMA,"V","i",
    "l","l","a","g","e"," ","n","a","m","e",COMMA,"P","l","a","y","e",
    "r"," ","I","D",COMMA,"P","l","a","y","e","r"," ","n","a","m","e",
    COMMA,"A","l","l","i","a","n","c","e"," ","I","D",COMMA,"A","l","l",
    "i","a","n","c","e"," ","T","a","g",COMMA,"P","o","p","u","l","a",
    "t","i","o","n",COMMA,"R","e","g","i","o","n",COMMA,"C","a","p","i",
    "t","a","l",COMMA,"C","i","t","y",COMMA,"H","a","r","b","o","r",COMMA,
    "V","i","c","t","o","r","y"," ","p","o","i","n","t","s" >>

\* A written row read back by a standard CSV reader.
ReadBack(line) == ReadRow(line, DQ).fields

XWorld(dump) == SelectSeq(dump, LAMBDA st : st.head.table = "x_world")

\* The value tuples of the x_world statements of a dump, in order.
TuplesOf(dump) == Flatten([i \in 1..Len(XWorld(dump)) |-> XWorld(dump)[i].tuples])

\* The text of a statement between its first "(" and its closing ");".
Body(st) == JoinTuples(st.tuples)

\* ---- C1 ----------------------------------------------------------------
\* C1: every run of main ends with exit status 0 or 1; the status is 0
\* exactly when no exception was raised, i.e. the fetch returned, at least one
\* record was extracted, every record was parsed and the CSV was written; it
\* is 1 when no record is found, when the fetch raises a network error and
\* when any other exception is raised.
C1_AllStepsDone ==
  /\ exc = NoExc
  /\ resp.kind = "http"
  /\ raw_records # <<>>
  /\ Len(parsed) = Len(raw_records)
  /\ map_csv = File(write_csv(parsed, HEADERS))

C1_Status ==
  Exited =>
    /\ exit_status \in {<<0>>, <<1>>}
    /\ exit_status = <<0>> <=> C1_AllStepsDone
    /\ Printed("No x_world INSERTs found") => exit_status = <<1>>
    /\ resp.kind = "transport" => exit_status = <<1>>
    /\ exc # NoExc => exit_status = <<1>>

C1_ExitStatus == [](C1_Status) /\ <>Exited

C1_Witness == Exited /\ exit_status = <<0>> /\ Len(parsed) = 2

\* ---- C2 ----------------------------------------------------------------
\* C2 as stated: for every record string parse_record returns exactly 16
\* fields: the split fields, padded with empty strings or cut to the first 16.
C2_Shape(rec, fields) ==
  LET f == SplitRecord(rec).fields IN
  /\ Len(fields) = 16
  /\ \A i \in 1..16 : fields[i] = IF i <= Len(f) THEN f[i] ELSE <<>>

C2_RowsWide(file) == \A i \in 2..Len(file.data) : Len(ReadBack(file.data[i])) = Len(HEADERS)

C3_QuotedCommas ==
  (u_pc \in {"parsed", "written"} /\ u_in.structured) =>
    /\ ~u_ret.err
    /\ \A i \in 1..Len(u_in.vals) : u_ret.fields[i] = u_in.vals[i].content
    /\ u_ret.fields[Len(u_in.vals) + 1] = <<>>

\* ---- C4 ----------------------------------------------------------------
\* C4 as stated, for statements that have their values on one line and no
\* ");" inside a value: extraction returns one string per value tuple of the
\* x_world statements, in order, and a successful run writes one row per
\* value tuple.
C4_Plain(st) == ~Contains(Body(st), LF) /\ ~HasPair(Body(st), ")", ";")

C5_HeaderThenRows(file, records) ==
  /\ file.exists
  /\ Len(file.data) = 1 + Len(records)
  /\ file.data[1] = HeaderLine
  /\ Cardinality({k \in 1..Len(file.data[1]) : file.data[1][k] = COMMA}) = 15
  /\ \A i \in 1..Len(records) : ReadBack(file.data[i + 1]) = records[i]

C5_HeaderFirst ==
  /\ u_pc = "written" =>
       \E n \in 0..MaxRows : C5_HeaderThenRows(u_file, [i \in 1..n |-> u_ret.fields])
  /\ (pc = "written" \/ (Exited /\ exit_status = <<0>>)) => C5_HeaderThenRows(map_csv, parsed)

C5_Witness == u_pc = "written" /\ Len(u_file.data) = 1

\* ---- C6 ----------------------------------------------------------------
\* C6: when the fetched text is empty or holds no x_world INSERT statement
\* that the pattern matches, extraction yields no record and the run ends
\* with a non-zero exit status.
C6_NoMatch(dump) ==
  \A i \in 1..Len(dump) :
    \/ dump[i].head.table # "x_world"
    \/ Contains(Body(dump[i]), LF) /\ ~HasPair(Body(dump[i]), ")", ";")

C6_EmptyInput ==
  (pc \notin {"start", "idle"} /\ resp.kind = "http" /\ C6_NoMatch(resp.dump)) =>
    /\ raw_records = <<>>
    /\ Exited => exit_status # <<0>>

C6_Witness ==
  /\ Exited
  /\ resp.status = 200
  /\ Len(resp.dump) = 2
  /\ C6_NoMatch(resp.dump)
  /\ Printed("No x_world INSERTs found")

\* ---- C7 ----------------------------------------------------------------
\* C7 as stated: a non-2xx response or a transport error aborts the run at
\* the fetch: no later step runs, map.sql and map.csv stay as they were, and
\* the exit status is 1.
C7_Aborted ==
  /\ stderr \in {<<"Fetching SQL">>, <<"Fetching SQL", "Error fetching SQL">>}
  /\ map_sql = fs0.sql
  /\ map_csv = fs0.csv
  /\ sql_text = <<>>
  /\ raw_records = <<>>
  /\ parsed = <<>>
  /\ Exited => exit_status = <<1>>

C7_Non2xxAborts ==
  (resp.kind = "transport" \/ (resp.kind = "http" /\ ~(200 <= resp.status /\ resp.status <= 299)))
    => C7_Aborted

\* C7 amended: a 4xx or 5xx response or a transport error aborts the run at
\* the fetch: no later step runs, both files stay as they were, exit status 1.
C7_ErrorStatusAborts ==
  (resp.kind = "transport" \/ (resp.kind = "http" /\ 400 <= resp.status /\ resp.status <= 599))
    => C7_Aborted

C7_Witness == Exited /\ resp.kind = "http" /\ resp.status = 404 /\ fs0.sql.exists

\* ---- C8 ----------------------------------------------------------------
\* C8: the steps run in the order fetch, cache write, extract, parse, CSV
\* write, each at most once and only after the one before succeeded; the
\* cache holds the downloaded text before extraction starts, the CSV is
\* touched only after every record is parsed, and a run that found no record
\* has written the whole text to the cache and left the CSV alone.
C8_Order == <<"Fetching SQL", "Saving fetched SQL", "Extracting INSERT records",
              "Parsing records", "Writing CSV">>

C8_Steps == SelectSeq(stderr, LAMBDA t : \E i \in 1..Len(C8_Order) : C8_Order[i] = t)

C8_Pipeline ==
  /\ IsPrefix(C8_Steps, C8_Order)
  /\ Printed("Saving fetched SQL") => resp.kind = "http" /\ sql_text = Render(resp.dump)
  /\ map_sql # fs0.sql => Printed("Saving fetched SQL")
  /\ Printed("Extracting INSERT records") => map_sql = File(sql_text)
  /\ Printed("Parsing records") => raw_records # <<>>
  /\ Printed("Writing CSV") => Len(parsed) = Len(raw_records)
  /\ map_csv # fs0.csv => Printed("Writing CSV")
  /\ Printed("No x_world INSERTs found") =>
       /\ map_sql = File(Render(resp.dump))
       /\ map_csv = fs0.csv
       /\ ~Printed("Parsing records")

C8_Witness ==
  /\ Exited
  /\ Printed("No x_world INSERTs found")
  /\ Len(resp.dump) = 2
  /\ fs0.csv.exists

\* ---- C9 ----------------------------------------------------------------
\* C9: the exit raised when no record is found passes both handlers: that run
\* prints the no-INSERTs diagnostic and neither handler's message; and a
\* failing run takes exactly one of the three failure paths.
C9_Failures == {"No x_world INSERTs found", "Error fetching SQL", "Unexpected error"}

C9_OnePath ==
  /\ Printed("No x_world INSERTs found") =>
       ~Printed("Error fetching SQL") /\ ~Printed("Unexpected error")
  /\ (Exited /\ exit_status # <<0>>) =>
       Cardinality({i \in 1..Len(stderr) : stderr[i] \in C9_Failures}) = 1
  /\ (Exited /\ exc.cls = "SystemExit") => stderr[Len(stderr)] = "No x_world INSERTs found"

C9_Witness == Exited /\ exc.cls = "SystemExit" /\ exit_status = <<1>>

\* ---- C10 ---------------------------------------------------------------
\* C10: each extracted string lies in the text between the "(" that follows
\* the pattern's literal (any letter case, optional white space) and the next
\* ");"; it holds neither ");" nor a line feed; the matches do not overlap
\* and come in text order.
C10_OccursAt(text, p, g, rec) ==
  LET open == p + 28 + g IN
  /\ open + Len(rec) + 2 <= Len(text)
  /\ \A k \in 1..28 : Fold(text[p + k - 1]) = Fold(PatternLiteral[k])
  /\ \A k \in (p + 28)..(open - 1) : text[k] \in Whitespace
  /\ text[open] = "("
  /\ SubSeq(text, open + 1, open + Len(rec)) = rec
  /\ text[open + Len(rec) + 1] = ")"
  /\ text[open + Len(rec) + 2] = ";"

RECURSIVE C10_Located(_, _, _)
C10_Located(text, from, recs) ==
  \/ recs = <<>>
  \/ \E p \in from..Len(text), g \in 0..1 :
       /\ C10_OccursAt(text, p, g, Head(recs))
       /\ C10_Located(text, p + 28 + g + Len(Head(recs)) + 3, Tail(recs))

====
